---- MODULE Spec2Model ----
(***************************************************************************)
(* A model of postoga's reconciliation-and-consensus engine.               *)
(*                                                                         *)
(*   - the haplotype consensus merger, src/modules/haplotype_branch.py     *)
(*   - the reconciler (table_builder), src/modules/make_query_table.py     *)
(*                                                                         *)
(* DataFrames are modelled by what pandas does with them: a missing cell   *)
(* is NaN, an outer merge keeps the union of the keys, fillna writes only  *)
(* NaN cells, Series.fillna(Series) aligns on the index labels.            *)
(* Sequences are 1-based here; the source index i of the code is i+1.      *)
(***************************************************************************)
EXTENDS Integers, Sequences, FiniteSets, TLC

VARIABLES
    hSource,    \* merge_haplotypes: the `source` argument
    hTables,    \* merge_haplotypes: one table per path (what get_haplotype_classes loads)
    hDirs,      \* merge_haplotypes: for each path, whether the directory exists
    hGit,       \* merge_haplotypes: whether `git rev-parse` succeeds in the current directory
    hRes,       \* merge_haplotypes: outcome of the call (status, joined table, returned table)
    hFile,      \* merged_assemblies.txt in paths[0]: whether written, and what
    rSorted,    \* table_builder: whether pandas sorts the keys of an outer merge
    rOrth,      \* orthology_classification.tsv, the data rows in file order
    rLoss,      \* loss_summary.tsv, the data rows in file order
    rScores,    \* orthology_scores.tsv, the data rows in file order
    rGenes,     \* query_genes.tsv as load_query_genes_mapping returns it
    rRun,       \* table_builder: the table after each step of the call
    lFile,      \* load_and_filter_loss_summary: the data rows of the file it reads
    lRes,       \* load_and_filter_loss_summary: what the call returned
    uBed,       \* unfragment_projections: column 4 of the coordinate file, in file order
    uTable,     \* unfragment_projections: the projection column of the table argument
    uRes,       \* unfragment_projections: outcome of the call
    fTable,     \* filter_query_annotation: the table argument, rows in order
    fBed,       \* filter_query_annotation: the id column of the query annotation, in file order
    fParams,    \* filter_query_annotation: the four filter arguments
    fRes,       \* filter_query_annotation: the table after each step and what is returned
    tArgs,      \* TogaDir: the arguments of each run
    tFs,        \* the file system: the paths that exist, and which run they belong to
    tRun,       \* TogaDir: each run's position in run() and the attributes it has set
    bTable,     \* filter_bed: the table argument, rows in order
    bBed,       \* filter_bed: column 4 of the coordinate file, in file order
    bArgs,      \* filter_bed: by_class, by_rel, threshold, paralog and engine
    bRes,      \* filter_bed: outcome of the call
    cFile,      \* load_tsv_with_columns: the file at filepath (whether it exists, its lines)
    cArgs,      \* load_tsv_with_columns: len(column_names) and skip_header
    cRes        \* load_tsv_with_columns: outcome of the call

hvars == <<hSource, hTables, hDirs, hGit, hRes, hFile>>
rvars == <<rSorted, rOrth, rLoss, rScores, rGenes, rRun>>
lvars == <<lFile, lRes>>
uvars == <<uBed, uTable, uRes>>
fvars == <<fTable, fBed, fParams, fRes>>
tvars == <<tArgs, tFs, tRun>>
bvars == <<bTable, bBed, bArgs, bRes>>
cvars == <<cFile, cArgs, cRes>>
vars == <<hSource, hTables, hDirs, hGit, hRes, hFile, rSorted, rOrth, rLoss, rScores, rGenes, rRun,
          lFile, lRes, uBed, uTable, uRes, fTable, fBed, fParams, fRes,
          tArgs, tFs, tRun,
          bTable, bBed, bArgs, bRes,
          cFile, cArgs, cRes>>

\* what the steps of one component leave alone: the state of the others
hOthers == <<rvars, lvars, uvars, fvars, tvars, bvars, cvars>>
rOthers == <<hvars, lvars, uvars, fvars, tvars, bvars, cvars>>
lOthers == <<hvars, rvars, uvars, fvars, tvars, bvars, cvars>>
uOthers == <<hvars, rvars, lvars, fvars, tvars, bvars, cvars>>
fOthers == <<hvars, rvars, lvars, uvars, tvars, bvars, cvars>>
tOthers == <<hvars, rvars, lvars, uvars, fvars, bvars, cvars>>
bOthers == <<hvars, rvars, lvars, uvars, fvars, tvars, cvars>>
cOthers == <<hvars, rvars, lvars, uvars, fvars, tvars, bvars>>

(***************************************************************************)
(* Bounds of the haplotype model.                                          *)
(***************************************************************************)
MaxPaths == 3
MaxHapRows == 2
MaxRuleLen == 2

\* pandas' missing value in a column of strings
NaN == "NaN"

\* transcript keys shared by the assemblies
HTx == {"T1", "T2"}
\* class values found in the input tables
HClasses == {"I", "L"}
\* tier names a caller can put in the rule list
HTiers == {"I", "L", "NF"}

RuleLists == UNION {[1..n -> HTiers] : n \in 1..MaxRuleLen}

\* attribute values of the row of the table at a path: one name per path, so
\* that the source of a back-filled value can be told
HGeneNames == <<"g1", "g2", "g3", "g4", "g5">>
HHelperNames == <<"h1", "h2", "h3", "h4", "h5">>
HRelNames == <<"o2o", "o2m", "m2o", "m2m", "o2z">>
HLevelNames == <<"PROJECTION", "TRANSCRIPT", "GENE", "PROJECTION", "TRANSCRIPT">>

HAttrCols(source) ==
    IF source # "loss" THEN {"t_gene", "helper", "relation"} ELSE {"projection"}

\* the rows a table at path i can hold for one transcript
HRows(source, i) ==
    IF source # "loss"
    THEN [class : HClasses, t_gene : {NaN, HGeneNames[i]},
          helper : {HHelperNames[i]}, relation : {HRelNames[i]}, projection : {NaN}]
    ELSE [class : HClasses, t_gene : {NaN}, helper : {NaN}, relation : {NaN},
          projection : {NaN, HLevelNames[i]}]

EmptyTable == [k \in {} |-> NaN]

\* haplotype_branch.py line 9 imports query_table from modules.make_query_table,
\* which defines no such name: importing the module raises ImportError
QueryTableDefined == FALSE

\* line 44 reads Constants.FileNames.CLASS, which src/constants.py does not
\* define: AttributeError
HasClassName == FALSE

HTotalRows == LET RECURSIVE Sum(_)
                  Sum(i) == IF i = 0 THEN 0 ELSE Cardinality(DOMAIN hTables[i]) + Sum(i - 1)
              IN Sum(Len(hTables))

(***************************************************************************)
(* get_haplotype_rules: {char: i for i, char in enumerate(rule)}, then     *)
(* rules["NF"] = len(rules).  A repeated tier keeps its last position.     *)
(***************************************************************************)
LastIndexOf(rule, c) ==
    CHOOSE i \in DOMAIN rule : rule[i] = c /\ \A j \in DOMAIN rule : rule[j] = c => j <= i

get_haplotype_rules(rule) ==
    LET keys == {rule[i] : i \in DOMAIN rule}
    IN [c \in keys \cup {"NF"} |->
            IF c = "NF" THEN Cardinality(keys) ELSE LastIndexOf(rule, c) - 1]

(***************************************************************************)
(* reduce(lambda x, y: pd.merge(x, y, on="transcripts", how="outer"), dfs) *)
(* A table holds at most one row per transcript.  The merged table maps a  *)
(* transcript to its columns, each column a sequence with one cell per     *)
(* source; a source without a row for the transcript contributes NaN.      *)
(***************************************************************************)
HCols == {"class", "t_gene", "helper", "relation", "projection"}

HLift(t) == [k \in DOMAIN t |-> [col \in HCols |-> <<t[k][col]>>]]

HNaNs(n) == [i \in 1..n |-> NaN]

HMergeOuter(x, n, y) ==
    [k \in DOMAIN x \cup DOMAIN y |->
        [col \in HCols |->
            (IF k \in DOMAIN x THEN x[k][col] ELSE HNaNs(n))
            \o <<IF k \in DOMAIN y THEN y[k][col] ELSE NaN>>]]

RECURSIVE HReduceMerge(_, _)
HReduceMerge(dfs, n) ==
    IF n = 1 THEN HLift(dfs[1])
    ELSE HMergeOuter(HReduceMerge(dfs, n - 1), n - 1, dfs[n])

fillna_NF(v) == IF v = NaN THEN "NF" ELSE v
replace_NF(v) == IF v = "NF" THEN NaN ELSE v

\* line 123: multiple_table.fillna("NF") fills every column
HFillAll(tab) ==
    [k \in DOMAIN tab |-> [col \in HCols |->
        [i \in DOMAIN tab[k][col] |-> fillna_NF(tab[k][col][i])]]]

\* lines 202-203: only class_x and class_y are filled
HFillClass(tab) ==
    [k \in DOMAIN tab |-> [col \in HCols |->
        [i \in DOMAIN tab[k][col] |->
            IF col = "class" THEN fillna_NF(tab[k][col][i]) ELSE tab[k][col][i]]]]

(***************************************************************************)
(* The election.  Line 129: min(classes, key=lambda c: rules[c]) returns   *)
(* the first class of minimum rank and raises KeyError when a class is no  *)
(* key of rules.  Lines 209-214: the pair branch looks the ranks up only   *)
(* when the two classes differ.                                            *)
(***************************************************************************)
MinByRank(classes, rules) ==
    classes[CHOOSE i \in DOMAIN classes :
        /\ \A j \in DOMAIN classes : rules[classes[i]] <= rules[classes[j]]
        /\ \A j \in DOMAIN classes : j < i => rules[classes[j]] > rules[classes[i]]]

MultiKeyError(tab, rules) ==
    \E k \in DOMAIN tab : \E i \in DOMAIN tab[k].class : tab[k].class[i] \notin DOMAIN rules

PairConsensus(x, y, rules) ==
    IF x = y THEN x ELSE IF rules[x] < rules[y] THEN x ELSE y

PairKeyError(tab, rules) ==
    \E k \in DOMAIN tab :
        /\ tab[k].class[1] # tab[k].class[2]
        /\ \/ tab[k].class[1] \notin DOMAIN rules
           \/ tab[k].class[2] \notin DOMAIN rules

(***************************************************************************)
(* The back-fill of the attribute columns.  Lines 133-146 and 166-171:     *)
(* column i has its "NF" cells put back to NaN, then column 0 is filled    *)
(* from it, for i = 0, 1, ...  Lines 217-219 and 239-241: column x is      *)
(* filled from column y.                                                   *)
(***************************************************************************)
RECURSIVE MultiBackFill(_, _)
MultiBackFill(cells, i) ==
    IF i = 1 THEN replace_NF(cells[1])
    ELSE LET acc == MultiBackFill(cells, i - 1)
         IN IF acc = NaN THEN replace_NF(cells[i]) ELSE acc

PairBackFill(cells) == IF cells[1] = NaN THEN cells[2] ELSE cells[1]

HOutCols(source) == HAttrCols(source) \cup {"consensus"}

MultiOut(tab, source, rules) ==
    [k \in DOMAIN tab |-> [col \in HOutCols(source) |->
        IF col = "consensus" THEN MinByRank(tab[k].class, rules)
        ELSE MultiBackFill(tab[k][col], Len(tab[k][col]))]]

PairOut(tab, source, rules) ==
    [k \in DOMAIN tab |-> [col \in HOutCols(source) |->
        IF col = "consensus" THEN PairConsensus(tab[k].class[1], tab[k].class[2], rules)
        ELSE PairBackFill(tab[k][col])]]

NoFile == [exists |-> FALSE, header |-> FALSE, rows |-> EmptyTable]
NoResult == [status |-> "none", rule |-> <<>>, rules |-> EmptyTable,
             joined |-> EmptyTable, out |-> EmptyTable]

(***************************************************************************)
(* merge_haplotypes(paths, source, rule), the whole call.                  *)
(***************************************************************************)
HResult(status, rule, rules, joined, out) ==
    [status |-> status, rule |-> rule, rules |-> rules, joined |-> joined, out |-> out]

\* the body of the function, lines 86-259, on the tables at the paths
MergeResult(dfs, dirs, git, source, rule) ==
    LET n == Len(dfs)
        rules == get_haplotype_rules(rule)
    IN  IF n = 0
        THEN \* line 86: paths[0] of an empty list, before the rules are built
             HResult("IndexError", rule, EmptyTable, EmptyTable, EmptyTable)
        ELSE IF ~git
        THEN \* line 86, logger.py line 58: Log.__init__ runs `git rev-parse
             \* --short HEAD` through shell (modules/utils.py line 41,
             \* check=True) before the log file is opened
             HResult("CalledProcessError", rule, EmptyTable, EmptyTable, EmptyTable)
        ELSE IF ~dirs[1]
        THEN \* line 86, logger.py line 62: Log.start opens postoga.log in paths[0]
             HResult("FileNotFoundError", rule, EmptyTable, EmptyTable, EmptyTable)
        ELSE IF source = "loss" /\ ~HasClassName
        THEN \* line 44, for the first path
             HResult("AttributeError", rule, EmptyTable, EmptyTable, EmptyTable)
        ELSE IF \E i \in 1..n : ~dirs[i]
        THEN \* lines 36-38 and 43-48: the files of a path are read
             HResult("FileNotFoundError", rule, EmptyTable, EmptyTable, EmptyTable)
        ELSE IF n < 2
        THEN HResult("ValueError", rule, rules, EmptyTable, EmptyTable)
        ELSE IF n > 2
        THEN LET tab == HFillAll(HReduceMerge(dfs, n))
             IN IF MultiKeyError(tab, rules)
                THEN HResult("KeyError", rule, rules, tab, EmptyTable)
                ELSE HResult("ok", rule, rules, tab, MultiOut(tab, source, rules))
        ELSE LET tab == HFillClass(HReduceMerge(dfs, n))
             IN IF PairKeyError(tab, rules)
                THEN HResult("KeyError", rule, rules, tab, EmptyTable)
                ELSE HResult("ok", rule, rules, tab, PairOut(tab, source, rules))

\* lines 184-189 (header=False) and 251-253 (header written)
WrittenFile(res, n) ==
    IF res.status = "ok"
    THEN [exists |-> TRUE, header |-> (n = 2), rows |-> res.out]
    ELSE hFile

\* the call as a caller makes it: the module is imported first
ImportAndMerge(dfs, dirs, git, source, rule) ==
    IF QueryTableDefined
    THEN MergeResult(dfs, dirs, git, source, rule)
    ELSE HResult("ImportError", rule, EmptyTable, EmptyTable, EmptyTable)

merge_haplotypes(rule) ==
    /\ hRes.status = "none"
    /\ hRes' = ImportAndMerge(hTables, hDirs, hGit, hSource, rule)
    /\ hFile' = WrittenFile(hRes', Len(hTables))
    /\ UNCHANGED <<hSource, hTables, hDirs, hGit>>
    /\ UNCHANGED hOthers

\* the caller names one more path, a directory that exists or not; its table
\* starts without rows
AddPath(exists) ==
    /\ hRes.status = "none"
    /\ Len(hTables) < MaxPaths
    /\ hTables' = Append(hTables, EmptyTable)
    /\ hDirs' = Append(hDirs, exists)
    /\ UNCHANGED <<hSource, hGit, hRes, hFile>>
    /\ UNCHANGED hOthers

\* the table at path i holds one more transcript
AddRow(i, k, row) ==
    /\ hRes.status = "none"
    /\ HTotalRows < MaxHapRows
    /\ hDirs[i]
    /\ k \notin DOMAIN hTables[i]
    /\ hTables' = [hTables EXCEPT ![i] =
                      [x \in DOMAIN hTables[i] \cup {k} |-> IF x = k THEN row ELSE hTables[i][x]]]
    /\ UNCHANGED <<hSource, hDirs, hGit, hRes, hFile>>
    /\ UNCHANGED hOthers

HInit ==
    /\ hSource \in {"query", "loss"}
    /\ hTables = <<>>
    /\ hDirs = <<>>
    /\ hGit \in BOOLEAN
    /\ hRes = NoResult
    /\ hFile = NoFile

HIdle ==
    /\ hSource = "query"
    /\ hTables = <<>>
    /\ hDirs = <<>>
    /\ hGit = TRUE
    /\ hRes = NoResult
    /\ hFile = NoFile

HNext ==
    \/ \E exists \in BOOLEAN : AddPath(exists)
    \/ \E i \in 1..Len(hTables) : \E k \in HTx : \E row \in HRows(hSource, i) : AddRow(i, k, row)
    \/ \E rule \in RuleLists : merge_haplotypes(rule)

(***************************************************************************)
(* The reconciler, src/modules/make_query_table.py.                        *)
(*                                                                         *)
(* A string is the sequence of its characters, so that str.split,          *)
(* str.join, str.contains, + and the order of the keys are computed as     *)
(* Python computes them.  A missing cell is NaNStr.                        *)
(***************************************************************************)
MaxRecRows == 3

NaNStr == <<NaN>>

\* characters of the identifiers, in code point order
CharOrder == <<"#", "$", "0", "1", "2", "7", "9", "G", "H", "P", "T", "_",
               "a", "b", "c", "q", "r", "x", "y", "z">>

CharRank(c) == CHOOSE i \in DOMAIN CharOrder : CharOrder[i] = c

RECURSIVE StrLess(_, _)
StrLess(s, t) ==
    IF s = <<>> THEN t # <<>>
    ELSE IF t = <<>> THEN FALSE
    ELSE IF Head(s) = Head(t) THEN StrLess(Tail(s), Tail(t))
    ELSE CharRank(Head(s)) < CharRank(Head(t))

\* str.split(sep): the segments between the separators
RECURSIVE Split(_, _)
Split(s, sep) ==
    IF s = <<>> THEN << <<>> >>
    ELSE LET rest == Split(Tail(s), sep)
         IN IF Head(s) = sep THEN << <<>> >> \o rest
            ELSE << <<Head(s)>> \o Head(rest) >> \o Tail(rest)

\* sep.join(segments)
RECURSIVE Join(_, _)
Join(segs, sep) ==
    IF segs = <<>> THEN <<>>
    ELSE IF Len(segs) = 1 THEN segs[1]
    ELSE segs[1] \o <<sep>> \o Join(Tail(segs), sep)

Contains(s, c) == \E i \in DOMAIN s : s[i] = c

Min2(a, b) == IF a < b THEN a ELSE b

\* line 142: query_transcript.str.split("#").str[:2].str.join("#")
r_transcript_of(qt) ==
    LET segs == Split(qt, "#")
    IN Join(SubSeq(segs, 1, Min2(2, Len(segs))), "#")

\* the identifiers of the model's input files
KA == <<"a", "#", "x", "#", "1">>
KB == <<"a", "#", "x", "#", "2">>
KF == <<"b", "#", "y", "#", "1", "$", "2">>
KZ == <<"z", "#", "9">>
RKeys == {KA, KB, KF}

\* one gene name per row position of orthology_classification.tsv
RefGenes == << <<"G">>, <<"H">>, <<"G", "2">>, <<"H", "2">>, <<"G", "7">> >>
QueryGenes == << <<"q">>, <<"r">>, <<"q", "2">>, <<"r", "2">>, <<"q", "7">> >>
OverrideGene == <<"z", "z">>

\* the rows row j of orthology_classification.tsv can be: complete, without
\* the genes, or without the reference transcript
OrthRows(j) ==
    [reference_gene : {RefGenes[j]}, reference_transcript : {NaNStr},
     query_gene : {QueryGenes[j]}, query_transcript : RKeys,
     orthology_class : {<<"o", "2", "o">>}]
    \cup
    {[reference_gene |-> g[1], reference_transcript |-> r_transcript_of(k),
      query_gene |-> g[2], query_transcript |-> k,
      orthology_class |-> <<"o", "2", "o">>] :
        g \in {<<RefGenes[j], QueryGenes[j]>>, <<NaNStr, NaNStr>>}, k \in RKeys}

PROJECTION == <<"P", "R", "O", "J", "E", "C", "T", "I", "O", "N">>

TRANSCRIPT == <<"T", "R", "A", "N", "S", "C", "R", "I", "P", "T">>

LossRows ==
    [level : {PROJECTION}, query_transcript : RKeys, loss_status : {<<"I">>}]
    \cup
    [level : {TRANSCRIPT}, query_transcript : {<<"a", "#", "x">>}, loss_status : {<<"I">>}]

ScoreRows ==
    {[transcript |-> <<"a", "#", "x">>, chain |-> <<"1">>, orthology_score |-> <<"9">>],
     [transcript |-> <<"c">>, chain |-> <<"7">>, orthology_score |-> <<"2">>],
     [transcript |-> <<"c">>, chain |-> <<"7">>, orthology_score |-> <<"x">>]}

GeneMaps == {[k \in D |-> OverrideGene] : D \in SUBSET {KA, KZ}}

(***************************************************************************)
(* The loaders.                                                            *)
(***************************************************************************)
\* lines 117-121: query_transcript = transcript + "#" + chain
load_and_process_scores(file) ==
    [i \in DOMAIN file |->
        [query_transcript |-> file[i].transcript \o <<"#">> \o file[i].chain,
         orthology_score |-> file[i].orthology_score,
         transcript |-> file[i].transcript,
         idx |-> i]]

\* lines 140-143: the PROJECTION rows, each under the index label it had in
\* the file, with the r_transcript column
RECURSIVE FilterLevel(_, _, _)
FilterLevel(file, i, level) ==
    IF i > Len(file) THEN <<>>
    ELSE (IF file[i].level = level
          THEN <<[level |-> file[i].level,
                  query_transcript |-> file[i].query_transcript,
                  loss_status |-> file[i].loss_status,
                  r_transcript |-> r_transcript_of(file[i].query_transcript),
                  idx |-> i]>>
          ELSE <<>>) \o FilterLevel(file, i + 1, level)

load_and_filter_loss_summary(file) == FilterLevel(file, 1, PROJECTION)

(***************************************************************************)
(* pd.merge(left, right, on="query_transcript", how="outer"): the pairs    *)
(* <<i, j>> of a left and a right row position (0: no row) in the order of *)
(* the result.  The keys come in order of first appearance, left rows      *)
(* first (pandas before 2.2, the pinned 2.0.2 among them), or sorted       *)
(* (pandas 2.2 and later); under one key the left rows are crossed with    *)
(* the right rows.  When one side has no rows and the keys are not sorted, *)
(* get_join_indexers returns the rows of the other side as they stand      *)
(* (_get_no_sort_one_missing_indexer), equal keys not brought together.    *)
(***************************************************************************)
RECURSIVE Dedup(_)
Dedup(keys) ==
    IF keys = <<>> THEN <<>>
    ELSE LET init == Dedup(SubSeq(keys, 1, Len(keys) - 1))
             last == keys[Len(keys)]
         IN IF \E i \in DOMAIN init : init[i] = last THEN init ELSE Append(init, last)

RECURSIVE InsertSorted(_, _)
InsertSorted(sorted, k) ==
    IF sorted = <<>> THEN <<k>>
    ELSE IF StrLess(k, Head(sorted)) THEN <<k>> \o sorted
    ELSE <<Head(sorted)>> \o InsertSorted(Tail(sorted), k)

RECURSIVE SortKeys(_)
SortKeys(keys) ==
    IF keys = <<>> THEN <<>>
    ELSE InsertSorted(SortKeys(Tail(keys)), Head(keys))

RECURSIVE Positions(_, _, _)
Positions(keys, k, i) ==
    IF i > Len(keys) THEN <<>>
    ELSE (IF keys[i] = k THEN <<i>> ELSE <<>>) \o Positions(keys, k, i + 1)

RECURSIVE Cross(_, _)
Cross(ls, rs) ==
    IF ls = <<>> THEN <<>>
    ELSE [j \in DOMAIN rs |-> <<Head(ls), rs[j]>>] \o Cross(Tail(ls), rs)

GroupPairs(lkeys, rkeys, k) ==
    LET ls == Positions(lkeys, k, 1)
        rs == Positions(rkeys, k, 1)
    IN IF rs = <<>> THEN [i \in DOMAIN ls |-> <<ls[i], 0>>]
       ELSE IF ls = <<>> THEN [j \in DOMAIN rs |-> <<0, rs[j]>>]
       ELSE Cross(ls, rs)

RECURSIVE ConcatGroups(_, _, _)
ConcatGroups(lkeys, rkeys, order) ==
    IF order = <<>> THEN <<>>
    ELSE GroupPairs(lkeys, rkeys, Head(order)) \o ConcatGroups(lkeys, rkeys, Tail(order))

OuterJoinPairs(lkeys, rkeys, sorted) ==
    LET seen == Dedup(lkeys \o rkeys)
    IN IF ~sorted /\ lkeys = <<>> THEN [j \in DOMAIN rkeys |-> <<0, j>>]
       ELSE IF ~sorted /\ rkeys = <<>> THEN [i \in DOMAIN lkeys |-> <<i, 0>>]
       ELSE ConcatGroups(lkeys, rkeys, IF sorted THEN SortKeys(seen) ELSE seen)

KeysOf(rows) == [i \in DOMAIN rows |-> rows[i].query_transcript]

(***************************************************************************)
(* merge_and_fill_orthology_data, step by step.  Every row carries the     *)
(* positions o, l, s of the orthology, loss and scores file rows it was    *)
(* merged from (0: none); they are no columns of the table.                *)
(***************************************************************************)
\* line 245: pd.merge(orthology, loss, on="query_transcript", how="outer")
MergeWithLoss(orth, loss, sorted) ==
    LET pairs == OuterJoinPairs(KeysOf(orth), KeysOf(loss), sorted)
    IN [p \in DOMAIN pairs |->
         LET i == pairs[p][1]
             j == pairs[p][2]
         IN [reference_gene |-> IF i > 0 THEN orth[i].reference_gene ELSE NaNStr,
             reference_transcript |-> IF i > 0 THEN orth[i].reference_transcript ELSE NaNStr,
             query_gene |-> IF i > 0 THEN orth[i].query_gene ELSE NaNStr,
             query_transcript |-> IF i > 0 THEN orth[i].query_transcript
                                  ELSE loss[j].query_transcript,
             orthology_class |-> IF i > 0 THEN orth[i].orthology_class ELSE NaNStr,
             level |-> IF j > 0 THEN loss[j].level ELSE NaNStr,
             loss_status |-> IF j > 0 THEN loss[j].loss_status ELSE NaNStr,
             r_transcript |-> IF j > 0 THEN loss[j].r_transcript ELSE NaNStr,
             orthology_score |-> NaNStr,
             transcript |-> NaNStr,
             o |-> i,
             l |-> IF j > 0 THEN loss[j].idx ELSE 0,
             s |-> 0]]

\* lines 245-247: .fillna({"reference_transcript": loss["r_transcript"]}).
\* Series.fillna(Series) aligns on the index: row p of the merged table (label
\* p-1 of its RangeIndex) takes the value loss holds under the same label,
\* that is the one of row p of the loss file, when that row passed the filter.
FillFromLossIndex(table, loss) ==
    [p \in DOMAIN table |->
        IF /\ table[p].reference_transcript = NaNStr
           /\ \E j \in DOMAIN loss : loss[j].idx = p
        THEN [table[p] EXCEPT !.reference_transcript =
                 loss[CHOOSE j \in DOMAIN loss : loss[j].idx = p].r_transcript]
        ELSE table[p]]

\* lines 182-199: df[[key, value]].dropna().set_index(key)[value].to_dict():
\* of the rows with the same key the last one gives the value
create_gene_mapping(table) ==
    LET rows == {p \in DOMAIN table : /\ table[p].reference_transcript # NaNStr
                                      /\ table[p].reference_gene # NaNStr}
        keys == {table[p].reference_transcript : p \in rows}
    IN [k \in keys |->
          table[CHOOSE p \in rows :
                   /\ table[p].reference_transcript = k
                   /\ \A q \in rows : table[q].reference_transcript = k => q <= p
               ].reference_gene]

Lookup(mapping, key) == IF key \in DOMAIN mapping THEN mapping[key] ELSE NaNStr

overwrite(cell, value) == IF value = NaNStr THEN cell ELSE value

\* Series.fillna(other): only the missing cells take the other value
fillna(cell, value) == IF cell = NaNStr THEN value ELSE cell

FillReferenceGeneOnly(table, mapping) ==
    [p \in DOMAIN table |->
        [table[p] EXCEPT
            !.reference_gene = fillna(@, Lookup(mapping, table[p].reference_transcript))]]

\* lines 202-224
fill_gene_columns_with_mapping(table, mapping) ==
    [p \in DOMAIN table |->
        [table[p] EXCEPT
            !.reference_gene = fillna(@, Lookup(mapping, table[p].reference_transcript)),
            !.query_gene = fillna(@, Lookup(mapping, table[p].reference_transcript))]]

BlankRow ==
    [reference_gene |-> NaNStr, reference_transcript |-> NaNStr, query_gene |-> NaNStr,
     query_transcript |-> NaNStr, orthology_class |-> NaNStr, level |-> NaNStr,
     loss_status |-> NaNStr, r_transcript |-> NaNStr, orthology_score |-> NaNStr,
     transcript |-> NaNStr, o |-> 0, l |-> 0, s |-> 0]

\* line 254: table.merge(scores, on="query_transcript", how="outer")
MergeWithScores(table, scores, sorted) ==
    LET pairs == OuterJoinPairs(KeysOf(table), KeysOf(scores), sorted)
    IN [p \in DOMAIN pairs |->
         LET i == pairs[p][1]
             j == pairs[p][2]
             base == IF i > 0 THEN table[i]
                     ELSE [BlankRow EXCEPT !.query_transcript = scores[j].query_transcript]
         IN IF j > 0
            THEN [base EXCEPT !.orthology_score = scores[j].orthology_score,
                              !.transcript = scores[j].transcript,
                              !.s = scores[j].idx]
            ELSE base]

\* line 255: table.fillna({"reference_transcript": table["transcript"]})
FillFromScoresTranscript(table) ==
    [p \in DOMAIN table |->
        [table[p] EXCEPT !.reference_transcript = fillna(@, table[p].transcript)]]

OverrideNullOnly(table, mapping) ==
    [p \in DOMAIN table |->
        [table[p] EXCEPT !.query_gene = fillna(@, Lookup(mapping, table[p].query_transcript))]]

\* lines 264-285
apply_query_gene_overrides(table, mapping) ==
    [p \in DOMAIN table |->
        IF table[p].query_transcript \in DOMAIN mapping
        THEN [table[p] EXCEPT !.query_gene = mapping[table[p].query_transcript]]
        ELSE table[p]]

\* line 342: orthology_table[OUTPUT_TABLE_COLS]
OUTPUT_TABLE_COLS ==
    {"reference_gene", "reference_transcript", "query_gene", "query_transcript",
     "orthology_class", "loss_status", "orthology_score"}

SelectOutputCols(table) ==
    [p \in DOMAIN table |-> [c \in OUTPUT_TABLE_COLS \cup {"o", "l", "s"} |-> table[p][c]]]

\* The dtype of the query_gene column at line 374.  read_csv gives a column
\* without a value float64; a merge leaves an object column without a value
\* when the orthology file has no data row, and each fillna of lines 222-223
\* converts such a column to float64 (Block.fillna, _maybe_downcast on an
\* object block).  Line 282 makes the column object when it assigns an
\* object Series, an assignment under an all-False mask included; the Series
\* is float64 only when the override map is empty (Series.map of an empty
\* dict).
QueryGeneDtype(table, genes) ==
    IF /\ table # <<>>
       /\ \A p \in DOMAIN table : table[p].query_gene = NaNStr
       /\ DOMAIN genes = {}
    THEN "float64" ELSE "object"

\* the outcome of an addition that raises TypeError
TypeErrorRaised == <<"TypeError">>

\* line 374: Series + str.  On an object column NaN + str is NaN; a float64
\* column cannot be added to a str and the addition raises TypeError
StrCat(a, b, dtype) ==
    IF a = TypeErrorRaised \/ dtype = "float64" THEN TypeErrorRaised
    ELSE IF a = NaNStr \/ b = NaNStr THEN NaNStr ELSE a \o b

\* lines 353-376: query_gene + "_" + query_transcript on the rows whose
\* query_transcript contains "$"; no addition when there is no such row
\* (line 372); the table is <<>> when line 374 raises
fill_query_genes_for_fragmented_projections(table, dtype) ==
    LET filled == [p \in DOMAIN table |->
                     IF Contains(table[p].query_transcript, "$")
                     THEN [table[p] EXCEPT !.query_gene =
                              StrCat(StrCat(@, <<"_">>, dtype),
                                     table[p].query_transcript, "object")]
                     ELSE table[p]]
    IN IF \E p \in DOMAIN filled : filled[p].query_gene = TypeErrorRaised
       THEN [status |-> "TypeError", table |-> <<>>]
       ELSE [status |-> "ok", table |-> filled]

NoRun == [status |-> "none", joined |-> <<>>, keyfilled |-> <<>>, looked1 |-> <<>>,
          scored |-> <<>>, fellback |-> <<>>, looked2 |-> <<>>, overridden |-> <<>>,
          selected |-> <<>>, final |-> <<>>]

\* lines 333-345: table_builder up to the unified table; the tables of the
\* steps that ran are kept when line 374 raises
BuildTable(orthFile, lossFile, scoresFile, genes, sorted) ==
    LET scores == load_and_process_scores(scoresFile)
        loss == load_and_filter_loss_summary(lossFile)
        joined == MergeWithLoss(orthFile, loss, sorted)
        keyfilled == FillFromLossIndex(joined, loss)
        looked1 == fill_gene_columns_with_mapping(keyfilled, create_gene_mapping(keyfilled))
        scored == MergeWithScores(looked1, scores, sorted)
        fellback == FillFromScoresTranscript(scored)
        looked2 == fill_gene_columns_with_mapping(fellback, create_gene_mapping(fellback))
        overridden == apply_query_gene_overrides(looked2, genes)
        selected == SelectOutputCols(overridden)
        fragmented == fill_query_genes_for_fragmented_projections(
                          selected, QueryGeneDtype(selected, genes))
    IN [status |-> fragmented.status, joined |-> joined, keyfilled |-> keyfilled, looked1 |-> looked1,
        scored |-> scored, fellback |-> fellback, looked2 |-> looked2,
        overridden |-> overridden, selected |-> selected,
        final |-> fragmented.table]

RTotalRows == Len(rOrth) + Len(rLoss) + Len(rScores)

table_builder ==
    /\ rRun.status = "none"
    /\ rRun' = BuildTable(rOrth, rLoss, rScores, rGenes, rSorted)
    /\ UNCHANGED <<rSorted, rOrth, rLoss, rScores, rGenes>>
    /\ UNCHANGED rOthers

\* the input files, one data row at a time
AddOrthRow(row) ==
    /\ rRun.status = "none"
    /\ RTotalRows < MaxRecRows
    /\ rOrth' = Append(rOrth, row)
    /\ UNCHANGED <<rSorted, rLoss, rScores, rGenes, rRun>>
    /\ UNCHANGED rOthers

AddLossRow(row) ==
    /\ rRun.status = "none"
    /\ RTotalRows < MaxRecRows
    /\ rLoss' = Append(rLoss, row)
    /\ UNCHANGED <<rSorted, rOrth, rScores, rGenes, rRun>>
    /\ UNCHANGED rOthers

AddScoreRow(row) ==
    /\ rRun.status = "none"
    /\ RTotalRows < MaxRecRows
    /\ rScores' = Append(rScores, row)
    /\ UNCHANGED <<rSorted, rOrth, rLoss, rGenes, rRun>>
    /\ UNCHANGED rOthers

RInit ==
    /\ rSorted \in BOOLEAN
    /\ rGenes \in GeneMaps
    /\ rOrth = <<>>
    /\ rLoss = <<>>
    /\ rScores = <<>>
    /\ rRun = NoRun

RIdle ==
    /\ rSorted = FALSE
    /\ rGenes = [k \in {} |-> OverrideGene]
    /\ rOrth = <<>>
    /\ rLoss = <<>>
    /\ rScores = <<>>
    /\ rRun = NoRun

RNext ==
    \/ \E row \in OrthRows(Len(rOrth) + 1) : AddOrthRow(row)
    \/ \E row \in LossRows : AddLossRow(row)
    \/ \E row \in ScoreRows : AddScoreRow(row)
    \/ table_builder


(***************************************************************************)
(* load_and_filter_loss_summary on its own: a loss_summary.tsv with        *)
(* identifiers of two, three and four segments.                            *)
(***************************************************************************)
MaxLossFileRows == 3

K2 == <<"c", "#", "7">>
K4 == <<"a", "#", "x", "#", "1", "#", "2">>

LossFileRows ==
    [level : {PROJECTION, TRANSCRIPT}, query_transcript : {K2, KA, K4}, loss_status : {<<"I">>}]

NotLoaded == [status |-> "none", loss |-> <<>>]

AddLossFileRow(row) ==
    /\ lRes.status = "none"
    /\ Len(lFile) < MaxLossFileRows
    /\ lFile' = Append(lFile, row)
    /\ UNCHANGED lRes
    /\ UNCHANGED lOthers

LoadLoss ==
    /\ lRes.status = "none"
    /\ lRes' = [status |-> "ok", loss |-> load_and_filter_loss_summary(lFile)]
    /\ UNCHANGED lFile
    /\ UNCHANGED lOthers

LInit ==
    /\ lFile = <<>>
    /\ lRes = NotLoaded

LIdle ==
    /\ lFile = <<>>
    /\ lRes = NotLoaded

LNext ==
    \/ \E row \in LossFileRows : AddLossFileRow(row)
    \/ LoadLoss

(***************************************************************************)
(* unfragment_projections, src/modules/filter_query_annotation.py.         *)
(***************************************************************************)
MaxBedRows == 3
MaxFragTableRows == 2

\* identifiers of the coordinate file
BedIds == {<<"G", "1">>, <<"G", "2">>, <<"G", "3">>}

DigitChars == <<"1", "2", "3", "4", "5", "6", "7", "8", "9">>

\* lines 336-340: the statement `table.to_csv(...)` ends on line 337 and is
\* followed by three indented lines; Python rejects the file with an
\* IndentationError, so the module cannot be imported and none of its
\* functions can be called
ModuleCompiles == FALSE

\* src/constants.py, class FileNames: there is no FRAGMENTED_BED
HasFragmentedBedName == FALSE

\* line 310: bed.iloc[:, 3].value_counts()
value_counts(bed, id) == Cardinality({i \in DOMAIN bed : bed[i] = id})

\* line 311: projection_count[projection_count > 1].index
FragmentsOf(bed) == {bed[i] : i \in {j \in DOMAIN bed : value_counts(bed, bed[j]) > 1}}

\* lines 345-402, applied row by row in file order (line 317): the n-th
\* occurrence of a fragmented identifier becomes id#FGn
append_fragment_suffix(bed, i, fragments) ==
    IF bed[i] \in fragments
    THEN bed[i] \o <<"#", "F", "G",
                     DigitChars[Cardinality({j \in 1..i : bed[j] = bed[i]})]>>
    ELSE bed[i]

\* lines 316-319: the counters after the last row
fragment_count(bed, fragments) == [fg \in fragments |-> value_counts(bed, fg)]

NotUnfragmented ==
    [status |-> "none", bed_path |-> "", bed |-> <<>>, written |-> FALSE, table |-> <<>>,
     toga_table |-> FALSE]

\* lines 307-342; `written` tells whether the fragmented coordinate file
\* was written, `toga_table` whether the table was (line 336)
UnfragmentBody(bed, table) ==
    LET fragments == FragmentsOf(bed)
        counts == fragment_count(bed, fragments)
        suffixed == [i \in DOMAIN bed |-> append_fragment_suffix(bed, i, fragments)]
        counted == [p \in DOMAIN table |->
                      [projection |-> table[p].projection,
                       fragments |-> IF table[p].projection \in fragments
                                     THEN counts[table[p].projection] ELSE 0]]
    IN IF bed = <<>>
       THEN \* line 308: pd.read_csv(header=None) of a file without lines raises
            \* pandas.errors.EmptyDataError
            [status |-> "EmptyDataError", bed_path |-> "", bed |-> bed,
             written |-> FALSE, table |-> table, toga_table |-> FALSE]
       ELSE IF fragments = {}
       THEN [status |-> "ok", bed_path |-> "query_annotation.bed", bed |-> bed,
             written |-> FALSE, table |-> table, toga_table |-> TRUE]
       ELSE IF HasFragmentedBedName
       THEN [status |-> "ok", bed_path |-> "FRAGMENTED_BED", bed |-> suffixed,
             written |-> TRUE, table |-> counted, toga_table |-> TRUE]
       ELSE [status |-> "AttributeError", bed_path |-> "", bed |-> suffixed,
             written |-> FALSE, table |-> counted, toga_table |-> FALSE]

unfragment_projections ==
    /\ uRes.status = "none"
    /\ uRes' = IF ModuleCompiles
               THEN UnfragmentBody(uBed, uTable)
               ELSE [status |-> "IndentationError", bed_path |-> "", bed |-> uBed,
                     written |-> FALSE, table |-> uTable, toga_table |-> FALSE]
    /\ UNCHANGED <<uBed, uTable>>
    /\ UNCHANGED uOthers

AddBedRow(id) ==
    /\ uRes.status = "none"
    /\ Len(uBed) < MaxBedRows
    /\ uBed' = Append(uBed, id)
    /\ UNCHANGED <<uTable, uRes>>
    /\ UNCHANGED uOthers

AddFragTableRow(id) ==
    /\ uRes.status = "none"
    /\ Len(uTable) < MaxFragTableRows
    /\ \A p \in DOMAIN uTable : uTable[p].projection # id
    /\ uTable' = Append(uTable, [projection |-> id])
    /\ UNCHANGED <<uBed, uRes>>
    /\ UNCHANGED uOthers

UInit ==
    /\ uBed = <<>>
    /\ uTable = <<>>
    /\ uRes = NotUnfragmented

UIdle ==
    /\ uBed = <<>>
    /\ uTable = <<>>
    /\ uRes = NotUnfragmented

UNext ==
    \/ \E id \in BedIds : AddBedRow(id)
    \/ \E id \in BedIds : AddFragTableRow(id)
    \/ unfragment_projections

(***************************************************************************)
(* filter_query_annotation, src/modules/make_query_table.py lines 378-528. *)
(* An optional number (an argument that may be None, a score that may be   *)
(* NaN) is a sequence of at most one number; an allow-list argument is the *)
(* sequence of its comma-separated names, empty for None or "".            *)
(***************************************************************************)
MaxFilterRows == 3
MaxFilterBed == 2

\* one query_transcript per row position of the table
FilterIds == << <<"p", "1">>, <<"p", "2">>, <<"p", "3">>, <<"p", "4">>, <<"p", "5">> >>

FragmentSuffix == <<"$", "1">>

RefTranscript == <<"t", "1">>

FilterRows(j) ==
    {[query_transcript |-> FilterIds[j], reference_transcript |-> v[1],
      orthology_score |-> v[2], orthology_class |-> v[3], loss_status |-> v[4]] :
        v \in {<<RefTranscript, <<2>>, "o2o", "I">>,
               <<RefTranscript, <<2>>, "o2m", "L">>,
               <<RefTranscript, <<1>>, "o2o", "I">>,
               <<RefTranscript, <<>>, "o2o", "I">>,
               <<NaNStr, <<1>>, "o2o", "I">>,
               <<NaNStr, <<2>>, "o2o", "I">>}}
    \cup
    {[query_transcript |-> FilterIds[j] \o FragmentSuffix, reference_transcript |-> RefTranscript,
      orthology_score |-> <<2>>, orthology_class |-> "o2o", loss_status |-> "I"]}

FilterBedIds == {FilterIds[1], FilterIds[1] \o FragmentSuffix, FilterIds[2]}

NoFilters ==
    [by_orthology_score |-> <<>>, by_orthology_class |-> <<>>, by_loss_status |-> <<>>,
     by_paralog_score |-> <<>>]

FilterParams ==
    {NoFilters,
     [NoFilters EXCEPT !.by_orthology_score = <<1>>],
     [NoFilters EXCEPT !.by_orthology_class = <<"o2o">>],
     [NoFilters EXCEPT !.by_loss_status = <<"I">>],
     [NoFilters EXCEPT !.by_paralog_score = <<1>>],
     [by_orthology_score |-> <<1>>, by_orthology_class |-> <<"o2o">>,
      by_loss_status |-> <<"I">>, by_paralog_score |-> <<1>>]}

RECURSIVE KeepRows(_, _)
KeepRows(table, keep) ==
    IF table = <<>> THEN <<>>
    ELSE (IF 1 \in keep THEN <<Head(table)>> ELSE <<>>)
            \o KeepRows(Tail(table), {i - 1 : i \in keep \ {1}})

\* lines 421-423: table[table["orthology_score"] >= float(by_orthology_score)];
\* a comparison with NaN is False
FilterByScore(table, by) ==
    IF by = <<>> THEN table
    ELSE KeepRows(table, {i \in DOMAIN table :
                            /\ table[i].orthology_score # <<>>
                            /\ table[i].orthology_score[1] >= by[1]})

\* lines 432-437
FilterByClass(table, by) ==
    IF by = <<>> THEN table
    ELSE KeepRows(table, {i \in DOMAIN table :
                            \E k \in DOMAIN by : table[i].orthology_class = by[k]})

\* lines 446-453
FilterByLossStatus(table, by) ==
    IF by = <<>> THEN table
    ELSE KeepRows(table, {i \in DOMAIN table :
                            \E k \in DOMAIN by : table[i].loss_status = by[k]})

\* line 470: (x["orthology_score"] > float(by_paralog_score)).sum()
AboveParalog(table, rt, by) ==
    Cardinality({i \in DOMAIN table : /\ table[i].reference_transcript = rt
                                       /\ table[i].orthology_score # <<>>
                                       /\ table[i].orthology_score[1] > by[1]})

\* lines 462-471: table.groupby("reference_transcript").filter(...); groupby
\* leaves the rows with a NaN key out of every group, and filter returns
\* the rows of the groups that pass
FilterByParalog(table, by) ==
    IF by = <<>> THEN table
    ELSE KeepRows(table, {i \in DOMAIN table :
                            /\ table[i].reference_transcript # NaNStr
                            /\ AboveParalog(table, table[i].reference_transcript, by) <= 1})

\* line 178: annotation["id"].str.split("$").str[0]
helper(id) == Split(id, "$")[1]

NotFiltered ==
    [status |-> "none", scored |-> <<>>, classed |-> <<>>, statused |-> <<>>,
     paraloged |-> <<>>, bed |-> <<>>, table |-> <<>>]

FilterNoNarrowBack(table, bed, params) ==
    LET paraloged == FilterByParalog(
                        FilterByLossStatus(
                           FilterByClass(FilterByScore(table, params.by_orthology_score),
                                         params.by_orthology_class),
                           params.by_loss_status),
                        params.by_paralog_score)
    IN [status |-> "ok", scored |-> paraloged, classed |-> paraloged, statused |-> paraloged,
        paraloged |-> paraloged,
        bed |-> KeepRows(bed, {i \in DOMAIN bed :
                                 \E p \in DOMAIN paraloged :
                                     paraloged[p].query_transcript = helper(bed[i])}),
        table |-> paraloged]

\* lines 417-528
FilterResult(table, bed, params) ==
    LET scored == FilterByScore(table, params.by_orthology_score)
        classed == FilterByClass(scored, params.by_orthology_class)
        statused == FilterByLossStatus(classed, params.by_loss_status)
        paraloged == FilterByParalog(statused, params.by_paralog_score)
        filtered_query_annotation ==
            KeepRows(bed, {i \in DOMAIN bed :
                             \E p \in DOMAIN paraloged :
                                 paraloged[p].query_transcript = helper(bed[i])})
        filtered_table ==
            KeepRows(paraloged, {p \in DOMAIN paraloged :
                                   \E i \in DOMAIN filtered_query_annotation :
                                       helper(filtered_query_annotation[i])
                                          = paraloged[p].query_transcript})
    IN [status |-> "ok", scored |-> scored, classed |-> classed, statused |-> statused,
        paraloged |-> paraloged, bed |-> filtered_query_annotation, table |-> filtered_table]

filter_query_annotation ==
    /\ fRes.status = "none"
    /\ fRes' = FilterResult(fTable, fBed, fParams)
    /\ UNCHANGED <<fTable, fBed, fParams>>
    /\ UNCHANGED fOthers

AddFilterRow(row) ==
    /\ fRes.status = "none"
    /\ Len(fTable) < MaxFilterRows
    /\ fTable' = Append(fTable, row)
    /\ UNCHANGED <<fBed, fParams, fRes>>
    /\ UNCHANGED fOthers

AddFilterBedRow(id) ==
    /\ fRes.status = "none"
    /\ Len(fBed) < MaxFilterBed
    /\ fBed' = Append(fBed, id)
    /\ UNCHANGED <<fTable, fParams, fRes>>
    /\ UNCHANGED fOthers

FInit ==
    /\ fTable = <<>>
    /\ fBed = <<>>
    /\ fParams \in FilterParams
    /\ fRes = NotFiltered

FIdle ==
    /\ fTable = <<>>
    /\ fBed = <<>>
    /\ fParams = NoFilters
    /\ fRes = NotFiltered

FNext ==
    \/ \E row \in FilterRows(Len(fTable) + 1) : AddFilterRow(row)
    \/ \E id \in FilterBedIds : AddFilterBedRow(id)
    \/ filter_query_annotation

(***************************************************************************)
(* TogaDir, src/run.py: two runs of the pipeline on one file system.       *)
(*                                                                         *)
(* A path is the sequence of its segments and a segment the sequence of    *)
(* its dot-separated parts.  The constructor (lines 118-235) builds the    *)
(* name of the output directory from                                       *)
(* Constants.FileNames.POSTOGA_OUTPUT_DIRECTORY at line 171 (178 with      *)
(* --outdir), before it looks at any file.  src/constants.py defines no    *)
(* such name (nor BED_UTR, read at line 210, nor FRAGMENTED_BED, read at   *)
(* line 342), so every construction raises AttributeError and no run       *)
(* reaches run().                                                          *)
(***************************************************************************)
MaxChoices == 2

Runs == {1, 2}

Other(p) == 3 - p

BED == <<"query_annotation", "bed">>

LOSS == <<"loss_summary", "tsv">>

ORTHOLOGY == <<"orthology_classification", "tsv">>

SCORES == <<"orthology_scores", "tsv">>

QUERY_GENES == <<"query_genes", "tsv">>

CODON == <<"codon_aln", "fa">>

PROTEIN == <<"protein_aln", "fa">>

CUSTOM == <<"custom", "tsv">>

InputNames == {BED, LOSS, ORTHOLOGY, SCORES, QUERY_GENES, CODON, PROTEIN, CUSTOM}

TogaDirOf(p) == IF p = 1 THEN << <<"T1">> >> ELSE << <<"T2">> >>

SharedOut == << <<"X">> >>

NoPath == <<>>

IsPrefix(dir, path) == Len(dir) <= Len(path) /\ SubSeq(path, 1, Len(dir)) = dir

DefaultArgs(p) ==
    [togadir |-> TogaDirOf(p), outdir |-> NoPath,
     orthology_class |-> <<>>, loss_status |-> <<>>,
     orthology_score |-> <<>>, min_paralog_score |-> <<>>,
     only_table |-> FALSE, only_convert |-> FALSE, depure |-> FALSE,
     to |-> "gtf", bed_type |-> "utr", with_isoforms |-> NoPath, extract |-> FALSE]

\* the values parse_args (lines 516-650) admits besides the defaults: tweak i
\* sets one argument
NumTweaks == 15

Tweak(a, i) ==
    CASE i = 1 -> [a EXCEPT !.outdir = SharedOut]
      [] i = 2 -> [a EXCEPT !.orthology_class = <<"o2o">>]
      [] i = 3 -> [a EXCEPT !.loss_status = <<"I">>]
      [] i = 4 -> [a EXCEPT !.orthology_score = <<0>>]
      [] i = 5 -> [a EXCEPT !.orthology_score = <<1>>]
      [] i = 6 -> [a EXCEPT !.min_paralog_score = <<0>>]
      [] i = 7 -> [a EXCEPT !.min_paralog_score = <<1>>]
      [] i = 8 -> [a EXCEPT !.only_table = TRUE]
      [] i = 9 -> [a EXCEPT !.only_convert = TRUE]
      [] i = 10 -> [a EXCEPT !.depure = TRUE]
      [] i = 11 -> [a EXCEPT !.to = "gff"]
      [] i = 12 -> [a EXCEPT !.to = "bed"]
      [] i = 13 -> [a EXCEPT !.bed_type = "bed"]
      [] i = 14 -> [a EXCEPT !.with_isoforms = a.togadir \o <<CUSTOM>>]
      [] OTHER -> [a EXCEPT !.extract = TRUE]

\* the arguments that differ from the defaults in at most k places
RECURSIVE Tweaked(_, _)
Tweaked(p, k) ==
    IF k <= 0 THEN {DefaultArgs(p)}
    ELSE LET S == Tweaked(p, k - 1)
         IN S \cup {Tweak(a, i) : a \in S, i \in 1..NumTweaks}

\* the inputs a TOGA directory may lack: nothing, one file, or all of it
Lacks == {{}} \cup {{n} : n \in InputNames} \cup {InputNames}

\* the arguments and the TOGA directory of run p, at most k choices away from
\* a default run on a complete directory
RunInputs(p, k) ==
    {[args |-> a, lack |-> {}] : a \in Tweaked(p, k)}
    \cup (IF k <= 0 THEN {}
          ELSE {[args |-> a, lack |-> l] : a \in Tweaked(p, k - 1), l \in Lacks \ {{}}})

InputEntries(p, lack) ==
    IF lack = InputNames THEN {}
    ELSE {[path |-> TogaDirOf(p), kind |-> "dir", owner |-> p]}
         \cup {[path |-> TogaDirOf(p) \o <<n>>, kind |-> "file", owner |-> p] :
                 n \in InputNames \ lack}

isfile(fs, path) == \E e \in fs : e.path = path /\ e.kind = "file"

isdir(fs, path) == \E e \in fs : e.path = path /\ e.kind = "dir"

\* lines 193-200 and 471-478: any([...]) is the truthiness of the arguments:
\* None, "" and 0.0 are false
any_filter(a) ==
    \/ a.orthology_class # <<>>
    \/ a.loss_status # <<>>
    \/ a.orthology_score # <<>> /\ a.orthology_score[1] # 0
    \/ a.min_paralog_score # <<>> /\ a.min_paralog_score[1] # 0

\* a run: where it is, the exception that ended it, its output directory and
\* the stages of run() it has executed
NotStarted == [pc |-> "new", status |-> "none", outdir |-> NoPath, events |-> <<>>]

Failed(r, status) == [r EXCEPT !.pc = "failed", !.status = status]

\* lines 158-180: the outcome of TogaDir(args) on the file system fs.  Line
\* 171 (178 when a.outdir is given) reads the undefined name
\* Constants.FileNames.POSTOGA_OUTPUT_DIRECTORY, whatever fs holds.
TogaDir(fs, a) == Failed(NotStarted, "AttributeError")

\* a constructor that opens a log file postoga.log in the directory --outdir
\* names (in the TOGA directory without --outdir), not in a directory of the
\* run's own
ConstructLoggingInParent(p) ==
    LET parent == IF tArgs[p].outdir = NoPath THEN tArgs[p].togadir ELSE tArgs[p].outdir
        log == parent \o << <<"postoga", "log">> >>
    IN /\ tRun[p].pc = "new"
       /\ tRun' = [tRun EXCEPT ![p] = TogaDir(tFs, tArgs[p])]
       /\ tFs' = {e \in tFs : e.path # log}
                    \cup {[path |-> log, kind |-> "file", owner |-> p]}
       /\ UNCHANGED tArgs
       /\ UNCHANGED tOthers

\* lines 118-235, and TogaDir(args).run() as main() calls it: the exception
\* of the constructor ends the run
construct(p) ==
    /\ tRun[p].pc = "new"
    /\ tRun' = [tRun EXCEPT ![p] = TogaDir(tFs, tArgs[p])]
    /\ UNCHANGED <<tArgs, tFs>>
    /\ UNCHANGED tOthers

TInit ==
    /\ \E i1 \in RunInputs(1, MaxChoices), i2 \in RunInputs(2, MaxChoices - 1) :
          /\ tArgs = [p \in Runs |-> IF p = 1 THEN i1.args ELSE i2.args]
          /\ tFs = InputEntries(1, i1.lack) \cup InputEntries(2, i2.lack)
                     \cup {[path |-> SharedOut, kind |-> "dir", owner |-> 0]}
    /\ tRun = [p \in Runs |-> NotStarted]

TIdle ==
    /\ tArgs = [p \in Runs |-> DefaultArgs(p)]
    /\ tFs = {}
    /\ tRun = [p \in Runs |-> NotStarted]

TNext ==
    \/ \E p \in Runs : construct(p)

(***************************************************************************)
(* filter_bed, src/modules/filter_query_annotation.py lines 22-182.  The   *)
(* table has the columns the function reads: projection, status,           *)
(* orthology_relation, orthology_probability, reference_transcript,        *)
(* reference_gene.                                                         *)
(***************************************************************************)
MaxStatRows == 2

MaxStatBed == 2

StatIds == {"p1", "p2"}

StatRows ==
    [projection : StatIds, status : {"I", "L"}, orthology_relation : {"o2o", "o2m"},
     orthology_probability : {1, 2}, reference_transcript : {"t1"},
     reference_gene : {"g1"}]

StatArgs ==
    [by_class : {<<>>, <<"I">>}, by_rel : {<<>>, <<"o2o">>}, threshold : {<<>>, <<2>>},
     paralog : {<<>>, <<1>>}, engine : {"pandas", "polars"}]

NoStatArgs ==
    [by_class |-> <<>>, by_rel |-> <<>>, threshold |-> <<>>, paralog |-> <<>>,
     engine |-> "pandas"]

\* `if threshold:`, `if paralog:`: None and 0 are false
Truthy(x) == x # <<>> /\ x[1] # 0

\* Series.value_counts().to_dict()
value_counts_of(table, col) ==
    [v \in {table[i][col] : i \in DOMAIN table} |->
        Cardinality({i \in DOMAIN table : table[i][col] = v})]

NoStats == <<value_counts_of(<<>>, "status"), value_counts_of(<<>>, "orthology_relation")>>

NotCalled ==
    [status |-> "none", wrote |-> FALSE, file |-> <<>>, stats |-> NoStats, table |-> <<>>]

\* lines 67-118: the four steps on the table
BedSteps(table, a) ==
    LET t1 == IF Truthy(a.threshold)
              THEN KeepRows(table, {i \in DOMAIN table :
                                      table[i].orthology_probability >= a.threshold[1]})
              ELSE table
        t2 == IF a.by_class # <<>>
              THEN KeepRows(t1, {i \in DOMAIN t1 : Contains(a.by_class, t1[i].status)})
              ELSE t1
        t3 == IF a.by_rel # <<>>
              THEN KeepRows(t2, {i \in DOMAIN t2 :
                                   Contains(a.by_rel, t2[i].orthology_relation)})
              ELSE t2
    IN IF Truthy(a.paralog)
       THEN KeepRows(t3, {i \in DOMAIN t3 :
                Cardinality({j \in DOMAIN t3 :
                    /\ t3[j].reference_transcript = t3[i].reference_transcript
                    /\ t3[j].orthology_probability > a.paralog[1]}) <= 1})
       ELSE t3

\* lines 64-182, were the module importable.  pandas: the coordinate file is
\* read (a file without lines raises EmptyDataError at line 122), the
\* filtered file is written and the statistics computed, then line 172
\* formats the undefined name `f`.  polars: line 106 (the paralog step)
\* selects the column "helper" of the aggregate, line 130 reads the
\* coordinate file (NoDataError for a file without lines) and line 137
\* selects its column "projection"; neither frame has the column.
FilterBedBody(table, bed, a) ==
    LET steps == BedSteps(table, a)
        kept == KeepRows(bed, {i \in DOMAIN bed :
                                 \E j \in DOMAIN steps : steps[j].projection = bed[i]})
        custom_table == KeepRows(steps, {j \in DOMAIN steps :
                                           \E i \in DOMAIN kept : kept[i] = steps[j].projection})
    IN IF a.engine # "polars"
       THEN IF bed = <<>>
            THEN [NotCalled EXCEPT !.status = "EmptyDataError"]
            ELSE [status |-> "NameError", wrote |-> TRUE, file |-> kept, stats |-> NoStats,
                  table |-> <<>>]
       ELSE IF ~Truthy(a.paralog) /\ bed = <<>>
            THEN [NotCalled EXCEPT !.status = "NoDataError"]
            ELSE [NotCalled EXCEPT !.status = "ColumnNotFoundError"]

\* import modules.filter_query_annotation, then filter_bed(...)
FilterBedResult(table, bed, a) ==
    IF ModuleCompiles THEN FilterBedBody(table, bed, a)
    ELSE [NotCalled EXCEPT !.status = "IndentationError"]

filter_bed ==
    /\ bRes.status = "none"
    /\ bRes' = FilterBedResult(bTable, bBed, bArgs)
    /\ UNCHANGED <<bTable, bBed, bArgs>>
    /\ UNCHANGED bOthers

AddStatRow(row) ==
    /\ bRes.status = "none"
    /\ Len(bTable) < MaxStatRows
    /\ \A i \in DOMAIN bTable : bTable[i].projection # row.projection
    /\ bTable' = Append(bTable, row)
    /\ UNCHANGED <<bBed, bArgs, bRes>>
    /\ UNCHANGED bOthers

AddStatBedRow(id) ==
    /\ bRes.status = "none"
    /\ Len(bBed) < MaxStatBed
    /\ bBed' = Append(bBed, id)
    /\ UNCHANGED <<bTable, bArgs, bRes>>
    /\ UNCHANGED bOthers

BInit ==
    /\ bTable = <<>>
    /\ bBed = <<>>
    /\ bArgs \in StatArgs
    /\ bRes = NotCalled

BIdle ==
    /\ bTable = <<>>
    /\ bBed = <<>>
    /\ bArgs = NoStatArgs
    /\ bRes = NotCalled

BNext ==
    \/ filter_bed
    \/ \E row \in StatRows : AddStatRow(row)
    \/ \E id \in StatIds : AddStatBedRow(id)

(***************************************************************************)
(* load_tsv_with_columns, src/modules/make_query_table.py lines 66-85:     *)
(* pd.read_csv(filepath, sep="\t", names=column_names, skiprows=...).      *)
(* A file is the sequence of its lines, a line the sequence of its cells;  *)
(* all lines of a file have the same number of cells.  read_csv pads a     *)
(* line that is shorter than the names with NaN and takes the surplus      *)
(* leading cells of a longer line as the index.                            *)
(***************************************************************************)
MaxCols == 3

MaxLines == 3

Cells == {"a", "b"}

NoFrame == [status |-> "none", columns |-> 0, index |-> <<>>, rows |-> <<>>]

Pad(line, n) == [i \in 1..n |-> IF i <= Len(line) THEN line[i] ELSE NaN]

\* the cells of a line under names of length n
CellsUnder(line, n) ==
    IF Len(line) <= n THEN Pad(line, n)
    ELSE SubSeq(line, Len(line) - n + 1, Len(line))

IndexOf(line, n) ==
    IF Len(line) <= n THEN <<>> ELSE SubSeq(line, 1, Len(line) - n)

\* pd.read_csv(filepath, sep="\t", names=column_names, skiprows=...):
\* skiprows=1 drops the first line when there is one; with names passed, a
\* file without a line left gives a frame without rows under the n names
read_csv(file, n, skip_header) ==
    IF ~file.exists THEN [NoFrame EXCEPT !.status = "FileNotFoundError"]
    ELSE LET data == IF skip_header /\ file.lines # <<>>
                     THEN Tail(file.lines) ELSE file.lines
         IN [status |-> "ok", columns |-> n,
             index |-> [i \in DOMAIN data |-> IndexOf(data[i], n)],
             rows |-> [i \in DOMAIN data |-> CellsUnder(data[i], n)]]

\* lines 83-85: the call
load_tsv_with_columns ==
    /\ cRes.status = "none"
    /\ cRes' = read_csv(cFile, cArgs.column_names, cArgs.skip_header)
    /\ UNCHANGED <<cFile, cArgs>>
    /\ UNCHANGED cOthers

AddLine(line) ==
    /\ cRes.status = "none"
    /\ cFile.exists
    /\ Len(cFile.lines) < MaxLines
    /\ Len(line) = cFile.width
    /\ cFile' = [cFile EXCEPT !.lines = Append(@, line)]
    /\ UNCHANGED <<cArgs, cRes>>
    /\ UNCHANGED cOthers

CInit ==
    /\ cFile \in [exists : BOOLEAN, width : 1..MaxCols, lines : {<<>>}]
    /\ cArgs \in [column_names : 1..MaxCols, skip_header : BOOLEAN]
    /\ cRes = NoFrame

CIdle ==
    /\ cFile = [exists |-> FALSE, width |-> 1, lines |-> <<>>]
    /\ cArgs = [column_names |-> 1, skip_header |-> TRUE]
    /\ cRes = NoFrame

CNext ==
    \/ load_tsv_with_columns
    \/ \E w \in 1..MaxCols : \E line \in [1..w -> Cells] : AddLine(line)

(***************************************************************************)
(* The specifications: Spec runs the consensus merger, SpecRec the         *)
(* reconciler, SpecLoss the loader of loss_summary.tsv, SpecFrag the       *)
(* fragment resolver, SpecFilter the filter pipeline, SpecRun two runs of   *)
(* TogaDir; each leaves the state of the other components alone.           *)
(***************************************************************************)
Init == HInit /\ RIdle /\ LIdle /\ UIdle /\ FIdle /\ TIdle /\ BIdle /\ CIdle

Spec == Init /\ [][HNext]_vars

InitRec == RInit /\ HIdle /\ LIdle /\ UIdle /\ FIdle /\ TIdle /\ BIdle /\ CIdle

SpecRec == InitRec /\ [][RNext]_vars

InitLoss == LInit /\ HIdle /\ RIdle /\ UIdle /\ FIdle /\ TIdle /\ BIdle /\ CIdle

SpecLoss == InitLoss /\ [][LNext]_vars

InitFrag == UInit /\ HIdle /\ RIdle /\ LIdle /\ FIdle /\ TIdle /\ BIdle /\ CIdle

SpecFrag == InitFrag /\ [][UNext]_vars

InitFilter == FInit /\ HIdle /\ RIdle /\ LIdle /\ UIdle /\ TIdle /\ BIdle /\ CIdle

SpecFilter == InitFilter /\ [][FNext]_vars

InitRun == TInit /\ HIdle /\ RIdle /\ LIdle /\ UIdle /\ FIdle /\ BIdle /\ CIdle

SpecRun == InitRun /\ [][TNext]_vars

InitBed == BInit /\ HIdle /\ RIdle /\ LIdle /\ UIdle /\ FIdle /\ TIdle /\ CIdle

SpecBed == InitBed /\ [][BNext]_vars

InitLoad == CInit /\ HIdle /\ RIdle /\ LIdle /\ UIdle /\ FIdle /\ TIdle /\ BIdle

SpecLoad == InitLoad /\ [][CNext]_vars

(***************************************************************************)
(* Claims about the consensus merger.                                      *)
(***************************************************************************)
HDone == hRes.status # "none"
HN == Len(hTables)
HKeys == UNION {DOMAIN hTables[i] : i \in 1..HN}

\* merge_haplotypes was called with at least two paths, all of them there
HCalled == HDone /\ HN >= 2 /\ \A i \in 1..HN : hDirs[i]

\* every class value of the input tables is a tier of the rule
HRanked ==
    \A i \in 1..HN : \A k \in DOMAIN hTables[i] :
        \E j \in DOMAIN hRes.rule : hRes.rule[j] = hTables[i][k].class

\* the class value source i has for transcript k, "NF" when it has no row
SrcClass(i, k) == IF k \in DOMAIN hTables[i] THEN hTables[i][k].class ELSE "NF"
SrcClasses(k) == {SrcClass(i, k) : i \in 1..HN}

\* C1: for N >= 2 tables whose classes the rule ranks, merge_haplotypes elects
\* for every transcript a consensus that is one of its N per-source class
\* values (NF for a source without a row), and no other of these values has
\* a smaller rank under the rule.
C1_ConsensusIsMinRank ==
    HCalled /\ HRanked =>
        /\ hRes.status = "ok"
        /\ \A k \in HKeys :
              /\ k \in DOMAIN hRes.out
              /\ hRes.out[k].consensus \in SrcClasses(k)
              /\ \A c \in SrcClasses(k) :
                    c # hRes.out[k].consensus =>
                        hRes.rules[hRes.out[k].consensus] <= hRes.rules[c]

\* C2: for N >= 2 inputs merge_haplotypes terminates with a table in which
\* every consensus is a member of the caller's tier list or NF.
C2_ConsensusTotality ==
    HCalled =>
        /\ hRes.status = "ok"
        /\ \A k \in DOMAIN hRes.out :
              hRes.out[k].consensus \in {hRes.rule[i] : i \in DOMAIN hRes.rule} \cup {"NF"}

\* C3: the merged table holds every transcript of every input, the class
\* cell of a source without a row is "NF", no class cell is null, and "NF"
\* has a rank.
C3_FullOuterJoin ==
    HCalled =>
        /\ hRes.status \in {"ok", "KeyError"}
        /\ DOMAIN hRes.joined = HKeys
        /\ hRes.status = "ok" => DOMAIN hRes.out = HKeys
        /\ "NF" \in DOMAIN hRes.rules
        /\ \A k \in HKeys : \A i \in 1..HN :
               /\ Len(hRes.joined[k].class) = HN
               /\ hRes.joined[k].class[i] # NaN
               /\ k \notin DOMAIN hTables[i] => hRes.joined[k].class[i] = "NF"
               /\ k \in DOMAIN hTables[i] => hRes.joined[k].class[i] = hTables[i][k].class

\* C4: in the rules of a call, the tier at position i (0-based) of a list of k
\* tiers has rank i, for every i in 0..k-1, and NF has rank k.
C4_RanksAsClaimed ==
    HCalled =>
        /\ DOMAIN hRes.rules = {hRes.rule[i] : i \in DOMAIN hRes.rule} \cup {"NF"}
        /\ \A i \in DOMAIN hRes.rule : hRes.rules[hRes.rule[i]] = i - 1
        /\ hRes.rules["NF"] = Len(hRes.rule)

\* the value of column col the lowest-index source has for transcript k
SrcAttr(i, k, col) == IF k \in DOMAIN hTables[i] THEN hTables[i][k][col] ELSE NaN
FirstSupplied(k, col) ==
    LET S == {i \in 1..HN : SrcAttr(i, k, col) \notin {NaN, "NF"}}
    IN IF S = {} THEN NaN
       ELSE SrcAttr(CHOOSE i \in S : \A j \in S : i <= j, k, col)

\* C5: every attribute column of the table merge_haplotypes returns holds,
\* for every transcript, the value of the lowest-index source that has one.
C5_BackFillFirstWins ==
    HCalled /\ HRanked =>
        /\ DOMAIN hRes.out = HKeys
        /\ \A k \in HKeys : \A col \in HAttrCols(hSource) :
              hRes.out[k][col] = FirstSupplied(k, col)

\* C6: a call with fewer than two input tables raises ValueError and leaves
\* merged_assemblies.txt unwritten.
C6_FewerThanTwoIsValueError ==
    (HDone /\ HN < 2) => (hRes.status = "ValueError" /\ ~hFile.exists)

(***************************************************************************)
(* Properties of the reconciler (checked under SpecRec)                    *)
(***************************************************************************)
RDone == rRun.status = "ok"

RCount(rows, k) == Cardinality({p \in DOMAIN rows : rows[p].query_transcript = k})

ROrthKeys == {rOrth[i].query_transcript : i \in DOMAIN rOrth}

RLossKeys ==
    {rLoss[i].query_transcript : i \in {j \in DOMAIN rLoss : rLoss[j].level = PROJECTION}}

RScoreKeys == {rScores[i].transcript \o <<"#">> \o rScores[i].chain : i \in DOMAIN rScores}

RProjLoss == load_and_filter_loss_summary(rLoss)

\* C7: every query_transcript of the orthology table, of the PROJECTION loss
\* rows, of the scores table (transcript#chain) or of the keys of the
\* override map is the query_transcript of exactly one row of the table
\* after merge_and_fill_orthology_data and apply_query_gene_overrides: none
\* is dropped and none is duplicated.
C7_EveryInputKeyExactlyOnce ==
    RDone =>
        \A k \in ROrthKeys \cup RLossKeys \cup RScoreKeys \cup DOMAIN rGenes :
            RCount(rRun.overridden, k) = 1

GeneCols == {"reference_transcript", "reference_gene", "query_gene"}

\* the cells of column c that are set in table a keep their value in table b
\* (rows of b are traced to the row of a they were merged from)
Kept(a, b, c) ==
    \A p \in DOMAIN a : \A q \in DOMAIN b :
        (a[p].o = b[q].o /\ a[p].l = b[q].l /\ (a[p].s = b[q].s \/ a[p].s = 0))
            => (a[p][c] # NaNStr => b[q][c] = a[p][c])

\* C8 (as claimed): a reference_transcript, reference_gene or query_gene cell
\* that is non-null after a step has the same value after the next step, for
\* the loss-key fill, the lookup fill, the scores join, the fallback fill,
\* the second lookup fill and the fragment-marker step.
C8_FallbackMonotonicity ==
    RDone =>
        \A c \in GeneCols :
            /\ Kept(rRun.joined, rRun.keyfilled, c)
            /\ Kept(rRun.keyfilled, rRun.looked1, c)
            /\ Kept(rRun.looked1, rRun.scored, c)
            /\ Kept(rRun.scored, rRun.fellback, c)
            /\ Kept(rRun.fellback, rRun.looked2, c)
            /\ Kept(rRun.overridden, rRun.final, c)

\* C8 (amended): a non-null reference_transcript or reference_gene cell keeps
\* its value through every step, the override and the fragment-marker step
\* included; a non-null query_gene cell keeps its value through every step
\* but the override and the fragment-marker step, and the fragment-marker
\* step turns the non-null query_gene of every row whose query_transcript
\* contains "$" into query_gene_query_transcript.
C8_MonotoneButOverrideAndFragments ==
    RDone =>
        /\ \A c \in GeneCols :
              /\ Kept(rRun.joined, rRun.keyfilled, c)
              /\ Kept(rRun.keyfilled, rRun.looked1, c)
              /\ Kept(rRun.looked1, rRun.scored, c)
              /\ Kept(rRun.scored, rRun.fellback, c)
              /\ Kept(rRun.fellback, rRun.looked2, c)
        /\ \A c \in {"reference_transcript", "reference_gene"} :
              /\ Kept(rRun.looked2, rRun.overridden, c)
              /\ Kept(rRun.overridden, rRun.final, c)
        /\ \A p \in DOMAIN rRun.final :
              LET before == rRun.overridden[p]
              IN rRun.final[p].query_gene =
                    IF Contains(before.query_transcript, "$") /\ before.query_gene # NaNStr
                    THEN before.query_gene \o <<"_">> \o before.query_transcript
                    ELSE before.query_gene

C8_Witness ==
    /\ RDone
    /\ \E p \in DOMAIN rRun.keyfilled :
          LET row == rRun.keyfilled[p]
              found == Lookup(create_gene_mapping(rRun.keyfilled), row.reference_transcript)
          IN /\ row.reference_gene # NaNStr
             /\ found # NaNStr
             /\ found # row.reference_gene
             /\ rRun.looked1[p].reference_gene = row.reference_gene
    /\ \E p \in DOMAIN rRun.final :
          /\ rRun.overridden[p].query_gene # NaNStr
          /\ rRun.final[p].query_gene # rRun.overridden[p].query_gene

\* C9 (as claimed): every row of the table returned by table_builder has a
\* non-null query_gene.
C9_QueryGeneNeverNull ==
    RDone => \A p \in DOMAIN rRun.final : rRun.final[p].query_gene # NaNStr

\* the key fill by query_transcript: a null reference_transcript takes the
\* r_transcript the join brought into the same row
FillFromOwnLossRow(table, loss) ==
    [p \in DOMAIN table |->
        IF table[p].reference_transcript = NaNStr
        THEN [table[p] EXCEPT !.reference_transcript = table[p].r_transcript]
        ELSE table[p]]

\* C10 (as claimed): after the outer join of orthology and loss, a row whose
\* reference_transcript is null holds the r_transcript of the loss row with
\* its own query_transcript, and a row whose reference_transcript was set
\* keeps it, wherever the rows stand in the two files.
C10_KeyFillFromOwnLossRow ==
    RDone => rRun.keyfilled = FillFromOwnLossRow(rRun.joined, RProjLoss)

(***************************************************************************)
(* Properties of load_and_filter_loss_summary (checked under SpecLoss)     *)
(***************************************************************************)
\* the identifier without its last "#"-delimited segment
DropLastSegment(qt) ==
    LET segs == Split(qt, "#")
    IN Join(SubSeq(segs, 1, Len(segs) - 1), "#")

ProjectionRowsOf(file) == {i \in DOMAIN file : file[i].level = PROJECTION}

\* C11 (as claimed): load_and_filter_loss_summary returns exactly the
\* PROJECTION rows of the file, and the r_transcript of each is its
\* query_transcript without the last "#"-delimited segment, whether the
\* identifier has two, three or more segments.
C11_ProjectionRowsDropLastSegment ==
    lRes.status = "ok" =>
        /\ {lRes.loss[p].idx : p \in DOMAIN lRes.loss} = ProjectionRowsOf(lFile)
        /\ Len(lRes.loss) = Cardinality(ProjectionRowsOf(lFile))
        /\ \A p \in DOMAIN lRes.loss :
              /\ lRes.loss[p].query_transcript = lFile[lRes.loss[p].idx].query_transcript
              /\ lRes.loss[p].r_transcript = DropLastSegment(lRes.loss[p].query_transcript)

(***************************************************************************)
(* Properties of the transcript-to-gene fill (checked under SpecRec)       *)
(***************************************************************************)
FilledCols == {"reference_gene", "query_gene"}

\* the reference genes the rows of a table pair with a reference_transcript
GenesOf(table, rt) ==
    {table[p].reference_gene :
        p \in {q \in DOMAIN table : /\ table[q].reference_transcript = rt
                                     /\ table[q].reference_transcript # NaNStr
                                     /\ table[q].reference_gene # NaNStr}}

\* one fill pass from table a to table b: a null gene cell of a row whose
\* reference_transcript is paired with a gene somewhere in a takes such a
\* gene, the same for all cells of that reference_transcript; a null cell
\* of any other row stays null
FillPass(a, b) ==
    /\ DOMAIN a = DOMAIN b
    /\ \A p \in DOMAIN a : \A c \in FilledCols :
          a[p][c] = NaNStr =>
              IF GenesOf(a, a[p].reference_transcript) # {}
              THEN b[p][c] \in GenesOf(a, a[p].reference_transcript)
              ELSE b[p][c] = NaNStr
    /\ \A p, q \in DOMAIN a : \A c, d \in FilledCols :
          (/\ a[p][c] = NaNStr
           /\ a[q][d] = NaNStr
           /\ a[p].reference_transcript = a[q].reference_transcript)
              => b[p][c] = b[q][d]

\* C12: the lookup holds exactly the reference_transcripts of the rows with a
\* reference_transcript and a reference_gene; each of the two fill passes
\* (before and after the scores join) sets every null reference_gene and
\* query_gene of a row whose reference_transcript is a key to the looked-up
\* gene and leaves the null cells of the other rows null; the second pass
\* covers the rows the scores join introduced.
C12_LookupFillPasses ==
    RDone =>
        /\ DOMAIN create_gene_mapping(rRun.keyfilled)
              = {rt \in {rRun.keyfilled[p].reference_transcript : p \in DOMAIN rRun.keyfilled} :
                    GenesOf(rRun.keyfilled, rt) # {}}
        /\ DOMAIN create_gene_mapping(rRun.fellback)
              = {rt \in {rRun.fellback[p].reference_transcript : p \in DOMAIN rRun.fellback} :
                    GenesOf(rRun.fellback, rt) # {}}
        /\ FillPass(rRun.keyfilled, rRun.looked1)
        /\ FillPass(rRun.fellback, rRun.looked2)

C12_Witness ==
    /\ RDone
    /\ \E p \in DOMAIN rRun.keyfilled :
          /\ rRun.keyfilled[p].reference_gene = NaNStr
          /\ rRun.keyfilled[p].query_gene = NaNStr
          /\ rRun.looked1[p].reference_gene # NaNStr
          /\ rRun.looked1[p].query_gene # NaNStr
    /\ \E p \in DOMAIN rRun.fellback :
          /\ rRun.fellback[p].o = 0
          /\ rRun.fellback[p].l = 0
          /\ rRun.looked2[p].reference_gene # NaNStr
          /\ rRun.looked2[p].query_gene # NaNStr

\* the reference_gene of the first row of the table, in table order, that
\* pairs the reference_transcript rt with a gene
FirstGene(table, rt) ==
    LET rows == {q \in DOMAIN table : /\ table[q].reference_transcript = rt
                                      /\ table[q].reference_gene # NaNStr}
    IN table[CHOOSE p \in rows : \A q \in rows : p <= q].reference_gene

FirstWins(table) ==
    LET mapping == create_gene_mapping(table)
    IN \A rt \in DOMAIN mapping : mapping[rt] = FirstGene(table, rt)

\* C13 (as claimed): when several rows pair one reference_transcript with
\* different reference_gene values, the lookup of either fill pass maps the
\* transcript to the gene of the first such row in table order.
C13_LookupFirstWins ==
    RDone => FirstWins(rRun.keyfilled) /\ FirstWins(rRun.fellback)

\* C14: after apply_query_gene_overrides every row whose query_transcript is a
\* key of the override map has the mapped query_gene, whatever the earlier
\* steps inferred, and is otherwise unchanged; every other row is unchanged;
\* for a row without "$" the query_gene after the override is the one of the
\* final table.
C14_OverrideAlwaysWins ==
    RDone =>
        /\ DOMAIN rRun.overridden = DOMAIN rRun.looked2
        /\ DOMAIN rRun.final = DOMAIN rRun.overridden
        /\ \A p \in DOMAIN rRun.looked2 :
              LET before == rRun.looked2[p]
              IN /\ rRun.overridden[p] =
                       IF before.query_transcript \in DOMAIN rGenes
                       THEN [before EXCEPT !.query_gene = rGenes[before.query_transcript]]
                       ELSE before
                 /\ ~Contains(before.query_transcript, "$")
                       => rRun.final[p].query_gene = rRun.overridden[p].query_gene

C14_Witness ==
    /\ RDone
    /\ \E p \in DOMAIN rRun.looked2 :
          /\ rRun.looked2[p].query_transcript \in DOMAIN rGenes
          /\ rRun.looked2[p].query_gene # NaNStr
          /\ rRun.looked2[p].query_gene # rGenes[rRun.looked2[p].query_transcript]
          /\ rRun.final[p].query_gene = rGenes[rRun.looked2[p].query_transcript]
    /\ \E p \in DOMAIN rRun.looked2 :
          /\ rRun.looked2[p].query_transcript \notin DOMAIN rGenes
          /\ rRun.looked2[p].query_gene # NaNStr

Digits == {"0", "1", "2", "3", "4", "5", "6", "7", "8", "9"}

IsNumeric(cell) == cell # NaNStr /\ cell # <<>> /\ \A i \in DOMAIN cell : cell[i] \in Digits

\* the score the row of the final table should hold: the one of its scores
\* row when that is a number, 0 otherwise
ScoreOrZero(row) ==
    IF row.s > 0 /\ IsNumeric(rScores[row.s].orthology_score)
    THEN rScores[row.s].orthology_score
    ELSE <<"0">>

\* C15 (as claimed): every row of the final table has a numeric
\* orthology_score; a row without a scores row, or whose score field is no
\* number, has orthology_score 0.
C15_ScoreNumericDefaultZero ==
    RDone =>
        \A p \in DOMAIN rRun.final :
            /\ IsNumeric(rRun.final[p].orthology_score)
            /\ rRun.final[p].orthology_score = ScoreOrZero(rRun.final[p])

\* the fragment marker: the part of the identifier after its last "$"
FragmentMarker(qt) ==
    LET parts == Split(qt, "$")
    IN parts[Len(parts)]

\* ways of appending a marker to a gene name
MarkerJoints == {<<>>, <<"_">>, <<"$">>, <<"#">>}

\* C16 (as claimed): for every row whose query_transcript contains "$" the
\* final query_gene is the query_gene before the step with the fragment
\* marker appended; a row without "$" keeps its query_gene.
C16_FragmentMarkerAppended ==
    RDone =>
        \A p \in DOMAIN rRun.final :
            LET before == rRun.selected[p]
            IN IF Contains(before.query_transcript, "$")
               THEN before.query_gene # NaNStr =>
                       \E joint \in MarkerJoints :
                           rRun.final[p].query_gene
                              = before.query_gene \o joint \o FragmentMarker(before.query_transcript)
               ELSE rRun.final[p].query_gene = before.query_gene

(***************************************************************************)
(* Properties of unfragment_projections (checked under SpecFrag)           *)
(***************************************************************************)
\* the coordinate file with the n-th occurrence of every identifier that
\* occurs more than once renamed id#FGn
Suffixed(bed) ==
    [i \in DOMAIN bed |->
        IF value_counts(bed, bed[i]) > 1
        THEN bed[i] \o <<"#", "F", "G", DigitChars[Cardinality({j \in 1..i : bed[j] = bed[i]})]>>
        ELSE bed[i]]

\* C17 (as claimed): for every identifier that occurs k>1 times in the
\* coordinate file, unfragment_projections renames its occurrences, in file
\* order, id#FG1 .. id#FGk, gives the table rows of that identifier the
\* fragment count k and every other row the count 0.
C17_FragmentUniqueness ==
    (uRes.status # "none" /\ FragmentsOf(uBed) # {}) =>
        /\ uRes.status = "ok"
        /\ uRes.bed = Suffixed(uBed)
        /\ DOMAIN uRes.table = DOMAIN uTable
        /\ \A p \in DOMAIN uTable :
              /\ uRes.table[p].projection = uTable[p].projection
              /\ "fragments" \in DOMAIN uRes.table[p]
              /\ uRes.table[p].fragments =
                    IF value_counts(uBed, uTable[p].projection) > 1
                    THEN value_counts(uBed, uTable[p].projection) ELSE 0

\* C18 (as claimed): when no identifier occurs more than once in the
\* coordinate file, unfragment_projections suffixes nothing, writes no
\* fragmented coordinate file, returns the path of the original coordinate
\* file and returns the table as it was.
C18_FragmentShortCircuit ==
    (uRes.status # "none" /\ FragmentsOf(uBed) = {}) =>
        /\ uRes.status = "ok"
        /\ uRes.bed_path = "query_annotation.bed"
        /\ ~uRes.written
        /\ uRes.bed = uBed
        /\ uRes.table = uTable

(***************************************************************************)
(* Properties of filter_query_annotation (checked under SpecFilter)        *)
(***************************************************************************)
FDone == fRes.status = "ok"

\* the paralog-count rule over a table: the rows for which at most one row
\* with the same reference_transcript scores above the threshold
ParalogRule(table, by) ==
    KeepRows(table, {i \in DOMAIN table :
                       AboveParalog(table, table[i].reference_transcript, by) <= 1})

\* C19 (as claimed): over the rows that survived the score, class and
\* relation steps, the paralog rule keeps a row if and only if at most one
\* row with its reference_transcript scores strictly above the threshold.
C19_ParalogCountRule ==
    (FDone /\ fParams.by_paralog_score # <<>>) =>
        fRes.paraloged = ParalogRule(fRes.statused, fParams.by_paralog_score)

\* the rows that satisfy every supplied predicate
Satisfying ==
    IF fParams.by_paralog_score = <<>> THEN fRes.statused
    ELSE ParalogRule(fRes.statused, fParams.by_paralog_score)

IdsOf(table) == {table[p].query_transcript : p \in DOMAIN table}

Elements(seq) == {seq[i] : i \in DOMAIN seq}

FilterIdempotent ==
    LET again == FilterResult(fRes.table, fRes.bed, fParams)
    IN again.table = fRes.table /\ again.bed = fRes.bed

\* C20 (as claimed): the identifiers of the filtered coordinate file are the
\* identifiers of the input coordinate file that are identifiers of
\* projections satisfying every supplied predicate, and filtering the
\* filtered table and coordinate file again with the same arguments returns
\* the same table rows and coordinate rows.
C20_FilterIntersectionIdempotent ==
    FDone =>
        /\ Elements(fRes.bed) = Elements(fBed) \cap IdsOf(Satisfying)
        /\ FilterIdempotent

\* C21: every row of the filtered coordinate file has a helper (its id up to
\* the first "$") that is the query_transcript of a row of the returned
\* table, every row of the returned table has a query_transcript that is the
\* helper of a row of the filtered coordinate file, and narrowing either by
\* the other once more changes nothing.
C21_FilterOutputsConsistent ==
    FDone =>
        /\ \A i \in DOMAIN fRes.bed : helper(fRes.bed[i]) \in IdsOf(fRes.table)
        /\ \A p \in DOMAIN fRes.table :
              \E i \in DOMAIN fRes.bed : helper(fRes.bed[i]) = fRes.table[p].query_transcript
        /\ KeepRows(fRes.bed, {i \in DOMAIN fRes.bed : helper(fRes.bed[i]) \in IdsOf(fRes.table)})
              = fRes.bed
        /\ KeepRows(fRes.table,
                    {p \in DOMAIN fRes.table :
                        \E i \in DOMAIN fRes.bed :
                            helper(fRes.bed[i]) = fRes.table[p].query_transcript})
              = fRes.table

C21_Witness ==
    /\ FDone
    /\ fRes.bed # <<>>
    /\ Len(fRes.bed) < Len(fBed)
    /\ fRes.table # <<>>
    /\ Len(fRes.table) < Len(fRes.paraloged)

(***************************************************************************)
(* Properties of TogaDir (checked under SpecRun)                           *)
(***************************************************************************)
\* a filter argument is supplied: it is not None
Supplied(a) ==
    \/ a.orthology_class # <<>>
    \/ a.loss_status # <<>>
    \/ a.orthology_score # <<>>
    \/ a.min_paralog_score # <<>>

\* the inputs a run with arguments a needs.  The coordinate file of
\* --target utr has no name in src/constants.py.
Required(a) ==
    (IF a.bed_type = "bed" THEN {a.togadir \o <<BED>>} ELSE {})
    \cup {a.togadir \o <<n>> : n \in {LOSS, ORTHOLOGY, SCORES, QUERY_GENES}}
    \cup (IF a.with_isoforms = NoPath THEN {} ELSE {a.with_isoforms})
    \cup (IF a.extract THEN {a.togadir \o <<CODON>>, a.togadir \o <<PROTEIN>>} ELSE {})

MissingInput(p) == \E path \in Required(tArgs[p]) : ~isfile(tFs, path)

\* the invocation of run p has ended, on a TOGA directory that has every input
RanOnCompleteInputs(p) == tRun[p].pc \in {"done", "failed"} /\ ~MissingInput(p)

Stages(p) == {tRun[p].events[i] : i \in DOMAIN tRun[p].events}

\* C22: the filter steps are applied exactly when their parameter is supplied
\* (not None); a threshold of 0 is supplied, and a run given only such a
\* parameter executes the filter stage.
C22_SuppliedFilterIsApplied ==
    \A p \in Runs :
        RanOnCompleteInputs(p) =>
            /\ any_filter(tArgs[p]) = Supplied(tArgs[p])
            /\ ("filter" \in Stages(p)) = Supplied(tArgs[p])

(***************************************************************************)
(* Properties of filter_bed (checked under SpecBed)                        *)
(***************************************************************************)
BDone == bRes.status # "none"

OtherEngine(a) == [a EXCEPT !.engine = IF @ = "pandas" THEN "polars" ELSE "pandas"]

\* C23: filter_bed returns, as statistics, the counts of the retained rows
\* per class and per relation over the final filtered table, and its pandas
\* and polars engines return the same retained rows and the same statistics
\* for the same inputs.
C23_StatsOverFinalTable ==
    BDone =>
        /\ bRes.status = "ok"
        /\ bRes.stats = <<value_counts_of(bRes.table, "status"),
                          value_counts_of(bRes.table, "orthology_relation")>>
        /\ \A j \in DOMAIN bRes.table : \E i \in DOMAIN bRes.file :
              bRes.file[i] = bRes.table[j].projection
        /\ FilterBedResult(bTable, bBed, OtherEngine(bArgs)) = bRes

\* what run p has put on the file system
OutputsOf(p) == {e \in tFs : e.owner = p /\ ~IsPrefix(TogaDirOf(p), e.path)}

\* C24: when a required input is missing, constructing the TogaDir raises
\* FileNotFoundError before an output directory, log file, table, isoform map
\* or filtered file is written and before depure removes anything.
C24_MissingInputRaisesBeforeOutput ==
    \A p \in Runs :
        MissingInput(p) /\ tRun[p].pc # "new" =>
            /\ tRun[p].pc = "failed"
            /\ tRun[p].status = "FileNotFoundError"
            /\ tRun[p].events = <<>>
            /\ OutputsOf(p) = {}

(***************************************************************************)
CDone == cRes.status # "none"

\* the number of columns observed in the file: the cells of its lines, none
\* for a file without a line
ObservedColumns(file) == IF file.lines = <<>> THEN 0 ELSE file.width

\* C25: load_tsv_with_columns fails with a missing-file error for an absent
\* path and with a schema-mismatch error whenever the column count of the
\* file differs from len(column_names); it returns no table for such a file.
C25_SchemaMismatchIsAnError ==
    CDone =>
        /\ ~cFile.exists => cRes.status = "FileNotFoundError"
        /\ cFile.exists /\ ObservedColumns(cFile) # cArgs.column_names
              => cRes.status # "ok"

\* the entries of the file system fs that belong to run q: what it has
\* created, what lies in its TOGA directory and, once it has one, what lies
\* in its output directory
BelongingTo(fs, q) ==
    {e \in fs : \/ e.owner = q
                \/ IsPrefix(TogaDirOf(q), e.path)
                \/ tRun[q].outdir # NoPath /\ IsPrefix(tRun[q].outdir, e.path)}

MultiBranch(dfs, source, rule) ==
    LET rules == get_haplotype_rules(rule)
        tab == HFillAll(HReduceMerge(dfs, Len(dfs)))
    IN IF MultiKeyError(tab, rules)
       THEN HResult("KeyError", rule, rules, tab, EmptyTable)
       ELSE HResult("ok", rule, rules, tab, MultiOut(tab, source, rules))

\* C27: on two tables, the two-table branch of merge_haplotypes does what the
\* N-table branch does: the same consensus and back-fill, failure on the same
\* inputs, the same output columns and the same header presence in the file.
C27_PairBranchEqualsMultiBranch ==
    HDone /\ HN = 2 =>
        LET multi == MultiBranch(hTables, hSource, hRes.rule)
        IN /\ hRes.status = multi.status
           /\ hRes.out = multi.out
           /\ hRes.status = "ok" =>
                 hFile = [exists |-> TRUE, header |-> FALSE, rows |-> multi.out]

(***************************************************************************)
(* The fragment resolver followed by the filter (checked under SpecFrag)   *)
(***************************************************************************)
\* the rows filter_query_annotation is given for the projections of the
\* resolver's table: rows that pass every filter
PassingRows(table) ==
    [p \in DOMAIN table |->
        [query_transcript |-> table[p].projection, reference_transcript |-> RefTranscript,
         orthology_score |-> <<2>>, orthology_class |-> "o2o", loss_status |-> "I"]]

\* C28: for every projection that occurs k > 1 times in the coordinate file
\* and whose table row passes all filters, the filter run on the resolver's
\* outputs keeps all k suffixed rows id#FG1 .. id#FGk in the filtered
\* coordinate file and the row in the filtered table.
C28_FragmentsSurviveFilter ==
    uRes.status # "none" =>
        \A p \in DOMAIN uTable :
            value_counts(uBed, uTable[p].projection) > 1 =>
                /\ uRes.status = "ok"
                /\ LET out == FilterResult(PassingRows(uRes.table), uRes.bed, NoFilters)
                   IN /\ uTable[p].projection \in IdsOf(out.table)
                      /\ \A i \in DOMAIN uBed :
                            uBed[i] = uTable[p].projection =>
                                Suffixed(uBed)[i] \in Elements(out.bed)

(***************************************************************************)
(* The row counts filter_query_annotation logs (checked under SpecFilter)  *)
(***************************************************************************)
\* line 489: kept = len(filtered_query_annotation)
kept(res) == Len(res.bed)

\* lines 418 and 490: discarded = initial_table_size - kept
discarded(table, res) == Len(table) - kept(res)

\* lines 422-424, 433-438, 447-454, 464-472: edge - len(table) of the four steps
step_discarded(table, res) ==
    (Len(table) - Len(res.scored)) + (Len(res.scored) - Len(res.classed))
    + (Len(res.classed) - Len(res.statused)) + (Len(res.statused) - Len(res.paraloged))

\* C29: the logged 'kept' is the number of projections in the returned
\* filtered table, 'discarded' is the initial number of rows minus kept and
\* never negative, and the per-step discarded counts sum to at most the
\* total discarded, whatever the coordinate file holds.
C29_RowCountAudit ==
    FDone =>
        /\ kept(fRes) = Len(fRes.table)
        /\ discarded(fTable, fRes) = Len(fTable) - Len(fRes.table)
        /\ discarded(fTable, fRes) >= 0
        /\ step_discarded(fTable, fRes) <= discarded(fTable, fRes)

(***************************************************************************)
(* The order of the stages of TogaDir.run (checked under SpecRun)          *)
(***************************************************************************)
\* the positions of the event op in the events of run p
At(p, op) == {i \in DOMAIN tRun[p].events : tRun[p].events[i] = op}

Before(p, op1, op2) == \A i \in At(p, op1), j \in At(p, op2) : i < j

\* C30: the table is written only after the filter stage and once; in default
\* mode the table is written and the conversion follows it; with only_table
\* the table is written and there is no conversion and no isoform map, with
\* only_convert there is a conversion and no table, and with both flags
\* only_table wins.
C30_RunOrdering ==
    \A p \in Runs :
        LET a == tArgs[p]
        IN /\ Before(p, "filter", "write_table")
           /\ Cardinality(At(p, "write_table")) <= 1
           /\ RanOnCompleteInputs(p) =>
                 /\ ~a.only_table /\ ~a.only_convert =>
                       /\ At(p, "write_table") # {}
                       /\ At(p, "convert") # {}
                       /\ Before(p, "write_table", "convert")
                 /\ a.only_table =>
                       /\ At(p, "write_table") # {}
                       /\ At(p, "convert") = {}
                       /\ At(p, "write_isoforms") = {}
                 /\ a.only_convert /\ ~a.only_table =>
                       /\ At(p, "convert") # {}
                       /\ At(p, "write_table") = {}

====
